---- MODULE Spec2Model ----
(***************************************************************************)
(* purr: the command layer of purrcrypt (src/src/main.rs).                  *)
(*                                                                         *)
(* One process run is modelled: main calls run, run builds the keystore    *)
(* and the config manager, checks permissions, parses the command line     *)
(* and dispatches exactly one command.  Strings are TLA+ strings; an       *)
(* Option<T> is the empty tuple (None) or a one-element tuple (Some).      *)
(* Indices of the Rust code are 0-based and kept so through Get and At.    *)
(* The library behind the command layer (keystore, config, keys, crypto)   *)
(* is not part of main.rs: its calls are modelled from the specification,  *)
(* each with a result drawn from the outcomes the specification allows.    *)
(***************************************************************************)
EXTENDS Integers, Sequences, FiniteSets, TLC

VARIABLES
    args,        \* env::args(): the program name followed by the arguments
    persisted0,  \* the preferred dialect on disk when the process started
    persisted,   \* the preferred dialect on disk ("missing": no usable config)
    config,      \* ConfigManager's in-memory dialect, <<>> before it is built
    pc,          \* position of run()
    warned,      \* the permission warning was printed
    verbose,     \* debug::set_verbose's flag
    command,     \* the parsed Command, <<>> before parse_args returned Ok
    plan,        \* locals of the running match arm (output, dialect, key paths)
    calls,       \* library calls made so far, in order, with their arguments
    written,     \* paths the library wrote (keys, output files)
    errMsg,      \* what was printed as "Error: ...", <<>> if nothing
    usageShown,  \* print_usage was called
    exitCode,    \* process exit status, -1 while running
    drawn,       \* results the library calls returned so far, in order
    phase,       \* 1: the run; 2: the same run repeated (permission comparison)
    first        \* summary of the run of phase 1, <<>> during phase 1

vars == <<args, persisted0, persisted, config, pc, warned, verbose, command,
          plan, calls, written, errMsg, usageShown, exitCode, drawn,
          phase, first>>

-----------------------------------------------------------------------------
(* Bounds of the input space.                                              *)

\* number of option groups that follow the command word
MaxOpts == 3
\* number of pieces a generated file name is built from
MaxName == 3

-----------------------------------------------------------------------------
(* Strings.                                                                *)

None == <<>>
Some(x) == <<x>>
IsSome(o) == o # <<>>
Unwrap(o) == o[1]

UpperAlpha == "ABCDEFGHIJKLMNOPQRSTUVWXYZ"
LowerAlpha == "abcdefghijklmnopqrstuvwxyz"

\* char::to_lowercase on one (ASCII) character
LowerChar(c) ==
    IF \E i \in 1..26 : SubSeq(UpperAlpha, i, i) = c
    THEN LET i == CHOOSE j \in 1..26 : SubSeq(UpperAlpha, j, j) = c
         IN  SubSeq(LowerAlpha, i, i)
    ELSE c

RECURSIVE LowerFrom(_, _)
LowerFrom(s, i) ==
    IF i > Len(s) THEN "" ELSE LowerChar(SubSeq(s, i, i)) \o LowerFrom(s, i + 1)

\* str::to_lowercase
ToLowercase(s) == LowerFrom(s, 1)

\* str::strip_suffix: Some(prefix) when s ends with suffix, None otherwise
StripSuffix(s, suffix) ==
    IF /\ Len(s) >= Len(suffix)
       /\ SubSeq(s, Len(s) - Len(suffix) + 1, Len(s)) = suffix
    THEN Some(SubSeq(s, 1, Len(s) - Len(suffix)))
    ELSE None

\* Path::is_absolute on a Unix path
IsAbsolute(p) == Len(p) >= 1 /\ SubSeq(p, 1, 1) = "/"

\* PathBuf::join: an absolute right side replaces the left side
Join(base, p) == IF IsAbsolute(p) THEN p ELSE base \o "/" \o p

-----------------------------------------------------------------------------
(* parse_args.                                                             *)

\* slice::get with the code's 0-based index
Get(s, i) == IF i >= 0 /\ i < Len(s) THEN Some(s[i + 1]) ELSE None
\* s[i] with the code's 0-based index
At(s, i) == s[i + 1]

Ok(c) == [ok |-> TRUE, cmd |-> c, err |-> ""]
Err(e) == [ok |-> FALSE, cmd |-> <<>>, err |-> e]

CmdHelp == [kind |-> "Help"]
CmdListKeys == [kind |-> "ListKeys"]
CmdGenerateKey(name) == [kind |-> "GenerateKey", name |-> name]
CmdSetDialect(d) == [kind |-> "SetDialect", dialect |-> d]
CmdImportKey(path, pub) == [kind |-> "ImportKey", key_path |-> path, is_public |-> pub]
CmdEncrypt(r, i, o, d) ==
    [kind |-> "Encrypt", recipient_key |-> r, input_file |-> i,
     output_file |-> o, dialect |-> d]
CmdDecrypt(k, i, o) ==
    [kind |-> "Decrypt", private_key |-> k, input_file |-> i, output_file |-> o]

IsVerboseFlag(a) == a = "-v" \/ a = "--verbose"

\* args.iter().any(|arg| arg == "-v" || arg == "--verbose")
VerboseOf(a) == \E i \in 1..Len(a) : IsVerboseFlag(a[i])

\* args without the verbose flags
FilteredArgs(a) == SelectSeq(a, LAMBDA x : ~IsVerboseFlag(x))

\* the while loop of the encrypt arm, then the construction of the command
RECURSIVE EncryptLoop(_, _, _, _, _, _)
EncryptLoop(fa, i, recipient, input, output, dialect) ==
    IF i < Len(fa)
    THEN IF At(fa, i) \in {"-r", "--recipient"}
         THEN IF IsSome(Get(fa, i + 1))
              THEN EncryptLoop(fa, i + 2, Get(fa, i + 1), input, output, dialect)
              ELSE Err("Missing recipient")
         ELSE IF At(fa, i) \in {"-o", "--output"}
         THEN IF IsSome(Get(fa, i + 1))
              THEN EncryptLoop(fa, i + 2, recipient, input, Get(fa, i + 1), dialect)
              ELSE Err("Missing output file")
         ELSE IF At(fa, i) = "--dialect"
         THEN IF IsSome(Get(fa, i + 1))
              THEN EncryptLoop(fa, i + 2, recipient, input, output, Get(fa, i + 1))
              ELSE Err("Missing dialect")
         ELSE EncryptLoop(fa, i + 1, recipient,
                          IF IsSome(input) THEN input ELSE Some(At(fa, i)),
                          output, dialect)
    ELSE IF ~IsSome(recipient) THEN Err("Missing recipient (-r)")
         ELSE IF ~IsSome(input) THEN Err("Missing input file")
         ELSE Ok(CmdEncrypt(Unwrap(recipient), Unwrap(input), output, dialect))

\* the while loop of the decrypt arm, then the construction of the command
RECURSIVE DecryptLoop(_, _, _, _, _)
DecryptLoop(fa, i, key, input, output) ==
    IF i < Len(fa)
    THEN IF At(fa, i) \in {"-k", "--key"}
         THEN IF IsSome(Get(fa, i + 1))
              THEN DecryptLoop(fa, i + 2, Get(fa, i + 1), input, output)
              ELSE Err("Missing key")
         ELSE IF At(fa, i) \in {"-o", "--output"}
         THEN IF IsSome(Get(fa, i + 1))
              THEN DecryptLoop(fa, i + 2, key, input, Get(fa, i + 1))
              ELSE Err("Missing output file")
         ELSE DecryptLoop(fa, i + 1, key,
                          IF IsSome(input) THEN input ELSE Some(At(fa, i)),
                          output)
    ELSE IF ~IsSome(key) THEN Err("Missing private key (-k)")
         ELSE IF ~IsSome(input) THEN Err("Missing input file")
         ELSE Ok(CmdDecrypt(Unwrap(key), Unwrap(input), output))

\* the import-key arm
ParseImportKey(fa) ==
    IF Len(fa) < 3 THEN Err("Missing key file to import")
    ELSE LET is_public == At(fa, 2) = "--public"
         IN  IF is_public
             THEN IF IsSome(Get(fa, 3))
                  THEN Ok(CmdImportKey(At(fa, 3), TRUE))
                  ELSE Err("Missing key file")
             ELSE Ok(CmdImportKey(At(fa, 2), FALSE))

\* the match on filtered_args[1]
ParseFiltered(fa) ==
    IF Len(fa) < 2 THEN Ok(CmdHelp)
    ELSE LET word == At(fa, 1)
         IN  IF word = "set-dialect"
             THEN IF IsSome(Get(fa, 2))
                  THEN Ok(CmdSetDialect(At(fa, 2)))
                  ELSE Err("Missing dialect (cat/dog)")
             ELSE IF word = "genkey" THEN Ok(CmdGenerateKey(Get(fa, 2)))
             ELSE IF word = "import-key" THEN ParseImportKey(fa)
             ELSE IF word \in {"list-keys", "listkeys", "-k"} THEN Ok(CmdListKeys)
             ELSE IF word \in {"encrypt", "-e"}
             THEN EncryptLoop(fa, 2, None, None, None, None)
             ELSE IF word \in {"decrypt", "-d"}
             THEN DecryptLoop(fa, 2, None, None, None)
             ELSE Ok(CmdHelp)

\* parse_args: Ok(Command) or Err(message)
parse_args(a) ==
    IF Len(a) < 2 THEN Ok(CmdHelp) ELSE ParseFiltered(FilteredArgs(a))

\* the value parse_args passes to debug::set_verbose (not called when there
\* are no arguments)
SetVerbose(a, old) == IF Len(a) < 2 THEN old ELSE VerboseOf(a)

-----------------------------------------------------------------------------
(* The command lines the model is run on.                                  *)

Program == "purr"

SeqsUpTo(S, n) == UNION {[1..k -> S] : k \in 0..n}

RECURSIVE Flat(_)
Flat(ss) == IF ss = <<>> THEN <<>> ELSE Head(ss) \o Flat(Tail(ss))

\* option groups tried after each command word: an option with its value, an
\* option that lacks its value or swallows the next word, a positional word
EncryptOpts ==
    {<<"-v">>, <<"-r", "bob">>, <<"-r">>, <<"-o", "out.txt">>,
     <<"--dialect", "dog">>, <<"--dialect", "CAT">>, <<"--dialect", "bird">>,
     <<"--dialect">>, <<"msg.txt">>}
DecryptOpts ==
    {<<"-v">>, <<"-k", "alice">>, <<"-k">>, <<"-o", "out.txt">>,
     <<"--dialect">>, <<"msg.purr">>, <<"msg.txt">>}
SetDialectOpts == {<<"-v">>, <<"cat">>, <<"dog">>, <<"Cat">>, <<"DOG">>, <<"bird">>}
GenKeyOpts == {<<"--verbose">>, <<"alice">>, <<"bob">>}
ImportOpts == {<<"-v">>, <<"--public">>, <<"bob.pub">>, <<"me.key">>}
OtherOpts == {<<"-v">>, <<"x">>}

OptsOf(word) ==
    CASE word \in {"-e", "encrypt"} -> EncryptOpts
      [] word \in {"-d", "decrypt"} -> DecryptOpts
      [] word = "set-dialect" -> SetDialectOpts
      [] word = "genkey" -> GenKeyOpts
      [] word = "import-key" -> ImportOpts
      [] OTHER -> OtherOpts

CommandWords ==
    {"-e", "encrypt", "-d", "decrypt", "set-dialect", "genkey", "import-key",
     "list-keys", "listkeys", "-k", "help"}

OptionLines ==
    UNION {{<<Program, w>> \o Flat(o) : o \in SeqsUpTo(OptsOf(w), MaxOpts)}
           : w \in CommandWords}

\* the verbose flag ahead of the command word
LeadingVerboseLines ==
    UNION {{<<Program, "-v", w>> \o Flat(o) : o \in SeqsUpTo(OptsOf(w), MaxOpts - 1)}
           : w \in CommandWords}

\* the long spellings of the options
LongOptionLines ==
    {<<Program, "encrypt", "--recipient", "bob", "--output", "out.txt", "msg.txt">>,
     <<Program, "encrypt", "msg.txt", "--dialect", "Dog", "--recipient", "bob">>,
     <<Program, "decrypt", "--key", "alice", "--output", "out.txt", "msg.purr">>,
     <<Program, "decrypt", "--verbose", "msg.txt", "--key", "alice">>,
     <<Program, "import-key", "--public", "bob.pub", "extra">>}

\* file names built from pieces, to exercise the default output names
NamePieces == {"a", ".", "purr", ".purr", ".decrypted"}

RECURSIVE Glue(_)
Glue(ps) == IF ps = <<>> THEN "" ELSE Head(ps) \o Glue(Tail(ps))

FileNames == {Glue(ps) : ps \in SeqsUpTo(NamePieces, MaxName)}

NameLines ==
    {<<Program, "-e", "-r", "bob", f>> : f \in FileNames}
    \cup {<<Program, "-d", "-k", "alice", f>> : f \in FileNames}

\* the example invocations of the usage text, in its order
UsageExamples ==
    << <<Program, "genkey">>,
       <<Program, "genkey", "alice">>,
       <<Program, "import-key", "bob.pub">>,
       <<Program, "-e", "-r", "bob", "message.txt">>,
       <<Program, "-e", "-r", "bob", "--dialect", "dog">>,
       <<Program, "-d", "-k", "alice", "message.purr">>,
       <<Program, "set-dialect", "dog">>,
       <<Program, "-v", "-e", "-r", "bob", "msg.txt">> >>

CommandLines ==
    {<<Program>>, <<Program, "-v">>}
    \cup OptionLines \cup LeadingVerboseLines \cup LongOptionLines \cup NameLines
    \cup {UsageExamples[i] : i \in 1..Len(UsageExamples)}

-----------------------------------------------------------------------------
(* The library behind the command layer, from the specification.           *)

Dialects == {"Cat", "Dog"}

\* Keystore::keys_dir, as the list-keys arm prints it
KeysDir == "~/.purr/keys"

PublicKeyPath(name) == Join(Join(KeysDir, "public"), name \o ".pub")
PrivateKeyPath(name) == Join(Join(KeysDir, "private"), name \o ".key")

\* Keystore::get_key_paths: path construction only, no existence check
get_key_paths(name) == <<PublicKeyPath(name), PrivateKeyPath(name)>>

\* Keystore::find_key(reference, true) in the three situations it can meet:
\* the reference is an existing path, it names a key of the public
\* directory, or it is neither
FindKeyResults == {"path", "name", "KeyNotFoundError"}
find_key(reference, r) ==
    IF r = "path" THEN Ok(reference)
    ELSE IF r = "name" THEN Ok(PublicKeyPath(reference))
    ELSE Err("KeyNotFoundError")

\* Keystore::import_key: the copy lands in the public or the private directory
import_dest(key_path, is_public) ==
    Join(Join(KeysDir, IF is_public THEN "public" ELSE "private"), key_path)

\* ConfigManager::new: a missing or corrupt config file gives the Cat dialect
LoadedDialect(disk) == IF disk \in Dialects THEN disk ELSE "Cat"

\* results of the fallible library calls
KeystoreNewResults == {"ok", "StorageError"}
ConfigNewResults == {"ok", "StorageError"}
PermissionResults == {"ok", "LoosePermissions"}
GenerateResults == {"ok", "KeyGenerationError"}
SetDialectResults == {"ok", "StorageError"}
\* KeyPair::load_public_key and load_keypair on files that exist
LoadResults == {"ok", "InvalidKeyError"}
\* KeyPair::load_public_key on a path that does not exist
LoadMissing == "StorageError"
EncryptResults == {"ok", "StorageError"}
DecryptResults == {"ok", "DecodeError", "AuthenticationError"}
ImportResults == {"ok", "StorageError", "InvalidKeyError"}
ListResults == {"ok", "StorageError"}
\* Path::exists
ExistsResults == {"exists", "absent"}

\* the six operations a command can dispatch
Operations ==
    {"generate_keypair", "set_dialect", "encrypt_file", "decrypt_file",
     "import_key", "list_keys"}

-----------------------------------------------------------------------------
(* main and run: the decisions main.rs takes.                               *)

\* (variant: the command line is parsed before anything else is set up)
RunPreludeParseFirst ==
    <<"parse_args", "Keystore::new", "ConfigManager::new", "verify_permissions">>

\* the calls run makes before it dispatches, in the order it makes them
RunPrelude ==
    <<"Keystore::new", "ConfigManager::new", "verify_permissions", "parse_args">>

\* the position of run after prelude step p
After(p) ==
    LET i == CHOOSE j \in 1..Len(RunPrelude) : RunPrelude[j] = p
    IN  IF i < Len(RunPrelude) THEN RunPrelude[i + 1] ELSE "dispatch"

\* (variant: main prints the error and returns normally)
ExitStatusAlwaysZero(isErr) == 0

\* main: exit status from run's result
ExitStatus(isErr) == IF isErr THEN 1 ELSE 0

\* (variant: verify_permissions()? propagates the error)
PermissionsFatal(r) == [warn |-> r # "ok", abort |-> r # "ok"]

\* run: what an Err of verify_permissions does: a warning, and run goes on
PermissionsOutcome(r) == [warn |-> r # "ok", abort |-> FALSE]

\* GenerateKey arm: name.unwrap_or_else(|| "default")
GenKeyName(name) == IF IsSome(name) THEN Unwrap(name) ELSE "default"

\* GenerateKey arm: pub_path and priv_path
GenKeyPaths(name) ==
    <<Join(Join(KeysDir, "public"), GenKeyName(name) \o ".pub"),
      Join(Join(KeysDir, "private"), GenKeyName(name) \o ".key")>>

\* the match on dialect.to_lowercase() of the SetDialect and Encrypt arms:
\* Some(variant), or None for "Invalid dialect. Use 'cat' or 'dog'"
DialectOf(d) ==
    LET l == ToLowercase(d)
    IN  IF l = "cat" THEN Some("Cat")
        ELSE IF l = "dog" THEN Some("Dog")
        ELSE None

InvalidDialect == "Invalid dialect. Use 'cat' or 'dog'"

\* (variant: every word but dog selects Cat)
NewDialectDefaultsToCat(d) ==
    IF ToLowercase(d) = "dog" THEN Some("Dog") ELSE Some("Cat")

\* SetDialect arm: the variant handed to set_dialect, None for the error
NewDialect(d) == DialectOf(d)

\* (variant: an override that names no dialect falls back to the config)
EncryptDialectFallback(override, cfg) ==
    IF IsSome(override) /\ IsSome(DialectOf(Unwrap(override)))
    THEN DialectOf(Unwrap(override))
    ELSE Some(cfg)

\* Encrypt arm: the dialect handed to encrypt_file, None for the error
EncryptDialect(override, cfg) ==
    IF IsSome(override) THEN DialectOf(Unwrap(override)) ELSE Some(cfg)

\* Encrypt arm: output_file.unwrap_or_else(|| format!("{}.purr", input_file))
EncryptOutput(input_file, output_file) ==
    IF IsSome(output_file) THEN Unwrap(output_file) ELSE input_file \o ".purr"

\* str::trim_end_matches: s without every trailing occurrence of suffix
RECURSIVE TrimEndMatches(_, _)
TrimEndMatches(s, suffix) ==
    IF IsSome(StripSuffix(s, suffix)) /\ Len(suffix) > 0
    THEN TrimEndMatches(Unwrap(StripSuffix(s, suffix)), suffix)
    ELSE s

\* (variant: trim_end_matches in place of strip_suffix)
DecryptOutputTrimAll(input_file, output_file) ==
    IF IsSome(output_file) THEN Unwrap(output_file)
    ELSE IF IsSome(StripSuffix(input_file, ".purr"))
         THEN TrimEndMatches(input_file, ".purr")
         ELSE input_file \o ".decrypted"

\* Decrypt arm: the given output, else the input without ".purr", else the
\* input with ".decrypted"
DecryptOutput(input_file, output_file) ==
    IF IsSome(output_file) THEN Unwrap(output_file)
    ELSE IF IsSome(StripSuffix(input_file, ".purr"))
         THEN Unwrap(StripSuffix(input_file, ".purr"))
         ELSE input_file \o ".decrypted"

\* Encrypt arm: find_key(..).unwrap_or_else(|_| Path::new(&recipient_key))
ResolvedKeyPath(found, recipient_key) ==
    IF found.ok THEN found.cmd ELSE recipient_key

\* (variant: only the private half is checked)
KeyHalfMissingPrivateOnly(exists, label, path) ==
    IF ~exists /\ label = "Private"
    THEN Some(label \o " key not found at " \o path)
    ELSE None

\* Decrypt arm: one existence check; Some(message) when the file is absent
KeyHalfMissing(exists, label, path) ==
    IF ~exists THEN Some(label \o " key not found at " \o path) ELSE None

-----------------------------------------------------------------------------
(* State machine.                                                          *)

Init ==
    /\ args \in CommandLines
    /\ persisted0 \in Dialects \cup {"missing"}
    /\ persisted = persisted0
    /\ config = None
    /\ pc = RunPrelude[1]
    /\ warned = FALSE
    /\ verbose = FALSE
    /\ command = None
    /\ plan = None
    /\ calls = <<>>
    /\ written = {}
    /\ errMsg = None
    /\ usageShown = FALSE
    /\ exitCode = -1
    /\ drawn = <<>>
    /\ phase = 1
    /\ first = None

\* the results a library call can return; in phase 2, the result it returned
\* at the same place of the first run
Draw(S) ==
    IF phase = 2 /\ Len(drawn) < Len(first.drawn)
    THEN {first.drawn[Len(drawn) + 1]} \cap S
    ELSE S

\* one more entry of the call log: the function, its arguments, its result
Called(fn, a, r) == calls' = Append(calls, [fn |-> fn, args |-> a, res |-> r])
Returned(r) == drawn' = Append(drawn, r)

Goto(p) == pc' = p /\ UNCHANGED <<exitCode, errMsg, usageShown>>

\* the process ends: process::exit(code), or main returns
Finish(code, err, usage) ==
    /\ pc' = "exit"
    /\ exitCode' = code
    /\ errMsg' = err
    /\ usageShown' = usage

\* run returns Err(e) through `?` or `return Err`: main prints it and exits
ReturnErr(e) == Finish(ExitStatus(TRUE), Some(e), usageShown)

\* run returns Ok(()): main returns
ReturnOk == Finish(ExitStatus(FALSE), errMsg, usageShown)

Twin == <<phase, first>>
Inputs == <<args, persisted0>>

\* let keystore = Keystore::new()?;
KeystoreNew ==
    /\ pc = "Keystore::new"
    /\ \E r \in Draw(KeystoreNewResults) :
          /\ Called("Keystore::new", <<>>, r)
          /\ Returned(r)
          /\ IF r = "ok" THEN Goto(After("Keystore::new")) ELSE ReturnErr(r)
    /\ UNCHANGED <<Inputs, persisted, config, warned, verbose, command, plan,
                   written, Twin>>

\* let mut config_manager = ConfigManager::new(&keystore.home_dir)?;
ConfigNew ==
    /\ pc = "ConfigManager::new"
    /\ \E r \in Draw(ConfigNewResults) :
          /\ Called("ConfigManager::new", <<>>, r)
          /\ Returned(r)
          /\ IF r = "ok"
             THEN /\ config' = Some(LoadedDialect(persisted))
                  /\ Goto(After("ConfigManager::new"))
             ELSE /\ config' = config
                  /\ ReturnErr(r)
    /\ UNCHANGED <<Inputs, persisted, warned, verbose, command, plan, written,
                   Twin>>

\* if let Err(e) = keystore.verify_permissions() { eprintln!(warning) }
\* (phase 2 takes the result the first run did not get)
VerifyPermissions ==
    /\ pc = "verify_permissions"
    /\ \E r \in PermissionResults :
          /\ phase = 2 => (r # "ok") = ~first.warned
          /\ Called("verify_permissions", <<>>, r)
          /\ warned' = PermissionsOutcome(r).warn
          /\ IF PermissionsOutcome(r).abort
             THEN ReturnErr(r)
             ELSE Goto(After("verify_permissions"))
    /\ UNCHANGED <<Inputs, persisted, config, verbose, command, plan, written,
                   drawn, Twin>>

\* let command = parse_args().unwrap_or_else(|e| { ...; process::exit(1) });
ParseArgs ==
    /\ pc = "parse_args"
    /\ Called("parse_args", args, IF parse_args(args).ok THEN "ok" ELSE "err")
    /\ verbose' = SetVerbose(args, verbose)
    /\ LET res == parse_args(args)
       IN  IF res.ok
           THEN /\ command' = Some(res.cmd)
                /\ Goto(After("parse_args"))
           ELSE /\ command' = command
                /\ Finish(1, Some(res.err), TRUE)
    /\ UNCHANGED <<Inputs, persisted, config, warned, plan, written, drawn,
                   Twin>>

Dispatching(kind) == pc = "dispatch" /\ IsSome(command) /\ Unwrap(command).kind = kind

\* Command::GenerateKey
GenerateKey ==
    /\ Dispatching("GenerateKey")
    /\ LET paths == GenKeyPaths(Unwrap(command).name)
       IN  \E r \in Draw(GenerateResults) :
              /\ Called("generate_keypair", paths, r)
              /\ Returned(r)
              /\ plan' = Some([pub_path |-> paths[1], priv_path |-> paths[2]])
              /\ IF r = "ok"
                 THEN written' = written \cup {paths[1], paths[2]} /\ ReturnOk
                 ELSE written' = written /\ ReturnErr(r)
    /\ UNCHANGED <<Inputs, persisted, config, warned, verbose, command, Twin>>

\* Command::SetDialect
SetDialect ==
    /\ Dispatching("SetDialect")
    /\ LET new_dialect == NewDialect(Unwrap(command).dialect)
       IN  IF IsSome(new_dialect)
           THEN \E r \in Draw(SetDialectResults) :
                   /\ Called("set_dialect", new_dialect, r)
                   /\ Returned(r)
                   /\ IF r = "ok"
                      THEN /\ config' = new_dialect
                           /\ persisted' = Unwrap(new_dialect)
                           /\ ReturnOk
                      ELSE /\ UNCHANGED <<config, persisted>>
                           /\ ReturnErr(r)
           ELSE /\ UNCHANGED <<config, persisted, calls, drawn>>
                /\ ReturnErr(InvalidDialect)
    /\ UNCHANGED <<Inputs, warned, verbose, command, plan, written, Twin>>

\* Command::Encrypt, up to the choice of the dialect
EncryptBegin ==
    /\ Dispatching("Encrypt")
    /\ LET c == Unwrap(command)
           output == EncryptOutput(c.input_file, c.output_file)
           dialect == EncryptDialect(c.dialect, Unwrap(config))
       IN  /\ IF IsSome(c.dialect)
              THEN calls' = calls
              ELSE Called("get_dialect", <<>>, Unwrap(config))
           /\ IF IsSome(dialect)
              THEN /\ plan' = Some([output |-> output, dialect |-> Unwrap(dialect)])
                   /\ Goto("find_key")
              ELSE /\ plan' = plan
                   /\ ReturnErr(InvalidDialect)
    /\ UNCHANGED <<Inputs, persisted, config, warned, verbose, command, written,
                   drawn, Twin>>

\* keystore.find_key(&recipient_key, true).unwrap_or_else(..)
EncryptFindKey ==
    /\ pc = "find_key"
    /\ LET c == Unwrap(command)
       IN  \E r \in Draw(FindKeyResults) :
              /\ Called("find_key", <<c.recipient_key, "public">>, r)
              /\ Returned(r)
              /\ plan' = Some([output |-> Unwrap(plan).output,
                               dialect |-> Unwrap(plan).dialect,
                               found |-> find_key(c.recipient_key, r).ok,
                               key_path |-> ResolvedKeyPath(find_key(c.recipient_key, r),
                                                            c.recipient_key)])
              /\ Goto("load_public_key")
    /\ UNCHANGED <<Inputs, persisted, config, warned, verbose, command, written,
                   Twin>>

\* let recipient_public_key = KeyPair::load_public_key(&key_path)?;
EncryptLoadKey ==
    /\ pc = "load_public_key"
    /\ \E r \in Draw(IF Unwrap(plan).found THEN LoadResults ELSE {LoadMissing}) :
          /\ Called("load_public_key", <<Unwrap(plan).key_path>>, r)
          /\ Returned(r)
          /\ IF r = "ok" THEN Goto("encrypt_file") ELSE ReturnErr(r)
    /\ UNCHANGED <<Inputs, persisted, config, warned, verbose, command, plan,
                   written, Twin>>

\* crypto::encrypt_file(&input_file, &output, &recipient_public_key, dialect)?;
EncryptFile ==
    /\ pc = "encrypt_file"
    /\ LET c == Unwrap(command)
           p == Unwrap(plan)
       IN  \E r \in Draw(EncryptResults) :
              /\ Called("encrypt_file", <<c.input_file, p.output, p.key_path, p.dialect>>, r)
              /\ Returned(r)
              /\ IF r = "ok"
                 THEN written' = written \cup {p.output} /\ ReturnOk
                 ELSE written' = written /\ ReturnErr(r)
    /\ UNCHANGED <<Inputs, persisted, config, warned, verbose, command, plan,
                   Twin>>

\* Command::Decrypt, up to get_key_paths
DecryptBegin ==
    /\ Dispatching("Decrypt")
    /\ LET c == Unwrap(command)
           output == DecryptOutput(c.input_file, c.output_file)
           paths == get_key_paths(c.private_key)
       IN  /\ Called("get_key_paths", <<c.private_key>>, "ok")
           /\ plan' = Some([output |-> output, pub_path |-> paths[1],
                            priv_path |-> paths[2]])
           /\ Goto("pub_path.exists")
    /\ UNCHANGED <<Inputs, persisted, config, warned, verbose, command, written,
                   drawn, Twin>>

\* if !pub_path.exists() { eprintln!(..); process::exit(1); }
DecryptCheckPublic ==
    /\ pc = "pub_path.exists"
    /\ \E r \in Draw(ExistsResults) :
          /\ Called("exists", <<Unwrap(plan).pub_path>>, r)
          /\ Returned(r)
          /\ LET missing == KeyHalfMissing(r = "exists", "Public", Unwrap(plan).pub_path)
             IN  IF IsSome(missing)
                 THEN Finish(1, missing, usageShown)
                 ELSE Goto("priv_path.exists")
    /\ UNCHANGED <<Inputs, persisted, config, warned, verbose, command, plan,
                   written, Twin>>

\* if !priv_path.exists() { eprintln!(..); process::exit(1); }
DecryptCheckPrivate ==
    /\ pc = "priv_path.exists"
    /\ \E r \in Draw(ExistsResults) :
          /\ Called("exists", <<Unwrap(plan).priv_path>>, r)
          /\ Returned(r)
          /\ LET missing == KeyHalfMissing(r = "exists", "Private", Unwrap(plan).priv_path)
             IN  IF IsSome(missing)
                 THEN Finish(1, missing, usageShown)
                 ELSE Goto("load_keypair")
    /\ UNCHANGED <<Inputs, persisted, config, warned, verbose, command, plan,
                   written, Twin>>

\* let keypair = KeyPair::load_keypair(&pub_path, &priv_path)?;
DecryptLoadKeys ==
    /\ pc = "load_keypair"
    /\ \E r \in Draw(LoadResults) :
          /\ Called("load_keypair", <<Unwrap(plan).pub_path, Unwrap(plan).priv_path>>, r)
          /\ Returned(r)
          /\ IF r = "ok" THEN Goto("decrypt_file") ELSE ReturnErr(r)
    /\ UNCHANGED <<Inputs, persisted, config, warned, verbose, command, plan,
                   written, Twin>>

\* crypto::decrypt_file(&input_file, &output, &keypair)?;
DecryptFile ==
    /\ pc = "decrypt_file"
    /\ LET c == Unwrap(command)
           p == Unwrap(plan)
       IN  \E r \in Draw(DecryptResults) :
              /\ Called("decrypt_file", <<c.input_file, p.output>>, r)
              /\ Returned(r)
              /\ IF r = "ok"
                 THEN written' = written \cup {p.output} /\ ReturnOk
                 ELSE written' = written /\ ReturnErr(r)
    /\ UNCHANGED <<Inputs, persisted, config, warned, verbose, command, plan,
                   Twin>>

\* Command::ImportKey
ImportKey ==
    /\ Dispatching("ImportKey")
    /\ LET c == Unwrap(command)
           dest == import_dest(c.key_path, c.is_public)
       IN  \E r \in Draw(ImportResults) :
              /\ Called("import_key",
                        <<c.key_path, IF c.is_public THEN "public" ELSE "private">>, r)
              /\ Returned(r)
              /\ IF r = "ok"
                 THEN written' = written \cup {dest} /\ ReturnOk
                 ELSE written' = written /\ ReturnErr(r)
    /\ UNCHANGED <<Inputs, persisted, config, warned, verbose, command, plan,
                   Twin>>

\* Command::ListKeys
ListKeys ==
    /\ Dispatching("ListKeys")
    /\ \E r \in Draw(ListResults) :
          /\ Called("list_keys", <<>>, r)
          /\ Returned(r)
          /\ IF r = "ok" THEN ReturnOk ELSE ReturnErr(r)
    /\ UNCHANGED <<Inputs, persisted, config, warned, verbose, command, plan,
                   written, Twin>>

\* Command::Help
Help ==
    /\ Dispatching("Help")
    /\ Finish(ExitStatus(FALSE), errMsg, TRUE)
    /\ UNCHANGED <<Inputs, persisted, config, warned, verbose, command, plan,
                   calls, written, drawn, Twin>>

Next ==
    \/ KeystoreNew
    \/ ConfigNew
    \/ VerifyPermissions
    \/ ParseArgs
    \/ GenerateKey
    \/ SetDialect
    \/ EncryptBegin
    \/ EncryptFindKey
    \/ EncryptLoadKey
    \/ EncryptFile
    \/ DecryptBegin
    \/ DecryptCheckPublic
    \/ DecryptCheckPrivate
    \/ DecryptLoadKeys
    \/ DecryptFile
    \/ ImportKey
    \/ ListKeys
    \/ Help

Spec == Init /\ [][Next]_vars

-----------------------------------------------------------------------------
(* The same run a second time, for the comparison of a run that got the    *)
(* permission warning with one that did not: the second run starts from    *)
(* the same command line and the same disk, its library calls return what  *)
(* they returned the first time, and verify_permissions returns the other  *)
(* result.  Only a run that reached verify_permissions has such a twin.     *)

\* what a finished run leaves behind
Summary ==
    [exitCode |-> exitCode, errMsg |-> errMsg, usageShown |-> usageShown,
     command |-> command, plan |-> plan, written |-> written,
     persisted |-> persisted, config |-> config, verbose |-> verbose,
     drawn |-> drawn, warned |-> warned, calls |-> calls]

Restart ==
    /\ pc = "exit"
    /\ phase = 1
    /\ \E i \in 1..Len(calls) : calls[i].fn = "verify_permissions"
    /\ phase' = 2
    /\ first' = Summary
    /\ persisted' = persisted0
    /\ config' = None
    /\ pc' = RunPrelude[1]
    /\ warned' = FALSE
    /\ verbose' = FALSE
    /\ command' = None
    /\ plan' = None
    /\ calls' = <<>>
    /\ written' = {}
    /\ errMsg' = None
    /\ usageShown' = FALSE
    /\ exitCode' = -1
    /\ drawn' = <<>>
    /\ UNCHANGED Inputs

NextTwin == Next \/ Restart

SpecTwin == Init /\ [][NextTwin]_vars

-----------------------------------------------------------------------------
(* Vocabulary of the properties.                                           *)

Done == pc = "exit"

CallIndices == 1..Len(calls)
CalledFn(fn) == \E i \in CallIndices : calls[i].fn = fn
Failing(fn) == \E i \in CallIndices : calls[i].fn = fn /\ calls[i].res # "ok"
Succeeded(fn) == \E i \in CallIndices : calls[i].fn = fn /\ calls[i].res = "ok"

Parsed(kind) == IsSome(command) /\ Unwrap(command).kind = kind

\* the variant a dialect word names, compared without regard to case
NamesCat(d) == ToLowercase(d) = "cat"
NamesDog(d) == ToLowercase(d) = "dog"
NamedVariant(d) == IF NamesCat(d) THEN "Cat" ELSE "Dog"

\* the operation each command dispatches
OperationOf(kind) ==
    CASE kind = "GenerateKey" -> "generate_keypair"
      [] kind = "SetDialect" -> "set_dialect"
      [] kind = "Encrypt" -> "encrypt_file"
      [] kind = "Decrypt" -> "decrypt_file"
      [] kind = "ImportKey" -> "import_key"
      [] kind = "ListKeys" -> "list_keys"

-----------------------------------------------------------------------------
(* C1 *)

\* a failure, read off the call log and the command alone
KeyHalfAbsent == \E i \in CallIndices : calls[i].fn = "exists" /\ calls[i].res = "absent"
RunFailed ==
    \/ Failing("Keystore::new")
    \/ Failing("ConfigManager::new")
    \/ Failing("parse_args")
    \/ KeyHalfAbsent
    \/ Failing("load_public_key")
    \/ Failing("load_keypair")
    \/ \E op \in Operations : Failing(op)
    \/ Parsed("SetDialect") /\ pc # "dispatch"
         /\ ~NamesCat(Unwrap(command).dialect) /\ ~NamesDog(Unwrap(command).dialect)
    \/ Parsed("Encrypt") /\ pc # "dispatch" /\ IsSome(Unwrap(command).dialect)
         /\ ~NamesCat(Unwrap(Unwrap(command).dialect))
         /\ ~NamesDog(Unwrap(Unwrap(command).dialect))

\* the selected command ran to its end and nothing failed
CompletedOk ==
    /\ IsSome(command)
    /\ ~RunFailed
    /\ errMsg = None
    /\ IF Unwrap(command).kind = "Help"
       THEN usageShown
       ELSE Succeeded(OperationOf(Unwrap(command).kind))

\* C1: a run in which keystore or config initialisation, argument parsing,
\* a key-half check or the dispatched operation failed ends with a non-zero
\* exit status and a printed error; exit status zero is reached only when
\* the selected command completed without error.
C1_FailureExitsNonZero ==
    Done =>
        /\ RunFailed => exitCode # 0 /\ IsSome(errMsg)
        /\ exitCode = 0 => CompletedOk

\* a decrypt whose decrypt_file failed authentication, and the process exited 1
C1_Witness ==
    /\ Done
    /\ \E i \in CallIndices :
          calls[i].fn = "decrypt_file" /\ calls[i].res = "AuthenticationError"
    /\ exitCode = 1

-----------------------------------------------------------------------------
(* C2 *)

\* the call log without the result of verify_permissions
MaskPermissions(cs) ==
    [i \in 1..Len(cs) |->
        IF cs[i].fn = "verify_permissions"
        THEN [fn |-> cs[i].fn, args |-> cs[i].args, res |-> "masked"]
        ELSE cs[i]]

\* C2: a run in which verify_permissions returned an error ends exactly as
\* the run on the same command line, disk and library results in which it
\* succeeded: same parsed command, same calls, same files written, same
\* persisted dialect, same error text and same exit status; the only
\* difference is the warning.
C2_PermissionsNonFatal ==
    (phase = 2 /\ Done) =>
        /\ warned # first.warned
        /\ exitCode = first.exitCode
        /\ errMsg = first.errMsg
        /\ usageShown = first.usageShown
        /\ command = first.command
        /\ plan = first.plan
        /\ written = first.written
        /\ persisted = first.persisted
        /\ verbose = first.verbose
        /\ drawn = first.drawn
        /\ MaskPermissions(calls) = MaskPermissions(first.calls)

\* the warned run of an encrypt command that succeeded, next to its twin
C2_Witness ==
    /\ phase = 2
    /\ Done
    /\ warned
    /\ ~first.warned
    /\ Parsed("Encrypt")
    /\ Succeeded("encrypt_file")
    /\ exitCode = 0

-----------------------------------------------------------------------------
(* C3 *)

EncryptOverride == Unwrap(command).dialect
OverrideValid == NamesCat(Unwrap(EncryptOverride)) \/ NamesDog(Unwrap(EncryptOverride))

\* C3: encrypt_file gets the variant the --dialect override names (cat or
\* dog in any letter case) whenever an override is given; the configured
\* dialect is read, and used, only when none is given; an override that
\* names neither ends the command with the invalid-dialect error before
\* any key is resolved or loaded and before anything is written.
C3_DialectOverride ==
    Parsed("Encrypt") =>
        /\ IsSome(EncryptOverride) => ~CalledFn("get_dialect")
        /\ \A i \in CallIndices :
              calls[i].fn = "encrypt_file" =>
                 calls[i].args[4] =
                    IF IsSome(EncryptOverride)
                    THEN NamedVariant(Unwrap(EncryptOverride))
                    ELSE Unwrap(config)
        /\ (~IsSome(EncryptOverride) /\ CalledFn("encrypt_file")) =>
              CalledFn("get_dialect")
        /\ (IsSome(EncryptOverride) /\ ~OverrideValid) =>
              /\ ~CalledFn("find_key")
              /\ ~CalledFn("load_public_key")
              /\ ~CalledFn("encrypt_file")
              /\ written = {}
              /\ pc \in {"dispatch", "exit"}
              /\ Done => exitCode # 0 /\ errMsg = Some(InvalidDialect)

\* an encrypt with --dialect CAT on a disk that prefers Dog, encrypted as Cat
C3_Witness ==
    /\ Done
    /\ Parsed("Encrypt")
    /\ EncryptOverride = Some("CAT")
    /\ config = Some("Dog")
    /\ \E i \in CallIndices :
          calls[i].fn = "encrypt_file" /\ calls[i].args[4] = "Cat" /\ calls[i].res = "ok"

-----------------------------------------------------------------------------
(* C4 *)

ExistsCheck(i, path) ==
    calls[i].fn = "exists" /\ calls[i].args = <<path>> /\ calls[i].res = "exists"

\* C4: decrypt_file is called only after the public and the private path of
\* get_key_paths were both found to exist and load_keypair succeeded on
\* them; when a half is absent the process exits non-zero, no key is
\* loaded, decrypt_file is not called and nothing is written.
C4_DecryptNeedsBothHalves ==
    Parsed("Decrypt") =>
        LET paths == get_key_paths(Unwrap(command).private_key)
        IN  /\ \A d \in CallIndices :
                  calls[d].fn = "decrypt_file" =>
                     \E i, j, k \in CallIndices :
                        /\ i < j /\ j < k /\ k < d
                        /\ ExistsCheck(i, paths[1])
                        /\ ExistsCheck(j, paths[2])
                        /\ calls[k].fn = "load_keypair"
                        /\ calls[k].args = paths
                        /\ calls[k].res = "ok"
            /\ KeyHalfAbsent =>
                  /\ Done
                  /\ exitCode # 0
                  /\ ~CalledFn("load_keypair")
                  /\ ~CalledFn("decrypt_file")
                  /\ written = {}

\* the public half exists, the private half does not: exit 1, nothing loaded
C4_Witness ==
    /\ Done
    /\ Parsed("Decrypt")
    /\ \E i, j \in CallIndices :
          /\ i < j
          /\ calls[i].fn = "exists" /\ calls[i].res = "exists"
          /\ calls[j].fn = "exists" /\ calls[j].res = "absent"
    /\ exitCode = 1
    /\ ~CalledFn("load_keypair")

-----------------------------------------------------------------------------
(* C5 *)

RecipientUnresolved ==
    \E i \in CallIndices : calls[i].fn = "find_key" /\ calls[i].res = "KeyNotFoundError"

\* C5: when find_key resolves the recipient neither as a path nor as a
\* name, the encrypt command ends with KeyNotFoundError and encrypt_file is
\* never called.
C5_UnresolvedRecipientIsKeyNotFound ==
    (Done /\ Parsed("Encrypt") /\ RecipientUnresolved) =>
        /\ errMsg = Some("KeyNotFoundError")
        /\ exitCode # 0
        /\ ~CalledFn("encrypt_file")

-----------------------------------------------------------------------------
(* C6 *)

SetDialectWord == Unwrap(command).dialect
SetDialectValid == NamesCat(SetDialectWord) \/ NamesDog(SetDialectWord)

\* C6: the dialect on disk changes only through set_dialect, which only a
\* set-dialect command with cat or dog (any letter case) calls, with the
\* variant the word names; set-dialect with another word ends with the
\* invalid-dialect error, set_dialect not called, the disk unchanged; no
\* other command calls set_dialect or changes the disk.
C6_OnlySetDialectWrites ==
    /\ ~Parsed("SetDialect") => persisted = persisted0 /\ ~CalledFn("set_dialect")
    /\ Parsed("SetDialect") =>
          /\ \A i \in CallIndices :
                calls[i].fn = "set_dialect" =>
                   /\ SetDialectValid
                   /\ calls[i].args = <<NamedVariant(SetDialectWord)>>
          /\ persisted # persisted0 =>
                /\ Succeeded("set_dialect")
                /\ persisted = NamedVariant(SetDialectWord)
          /\ Succeeded("set_dialect") => persisted = NamedVariant(SetDialectWord)
          /\ (Done /\ SetDialectValid) => CalledFn("set_dialect")
          /\ ~SetDialectValid =>
                /\ persisted = persisted0
                /\ ~CalledFn("set_dialect")
                /\ Done => exitCode # 0 /\ errMsg = Some(InvalidDialect)

\* set-dialect DOG on a disk that preferred Cat: the disk now prefers Dog
C6_Witness ==
    /\ Done
    /\ Parsed("SetDialect")
    /\ SetDialectWord = "DOG"
    /\ persisted0 = "Cat"
    /\ persisted = "Dog"
    /\ exitCode = 0

-----------------------------------------------------------------------------
(* C7 *)

InPublicDir(file) == KeysDir \o "/public/" \o file
InPrivateDir(file) == KeysDir \o "/private/" \o file

\* C7: genkey without a name generates user.pub and user.key; genkey N
\* generates N.pub in the public key directory and N.key in the private
\* key directory.
C7_GenKeyFileNames ==
    Parsed("GenerateKey") =>
        \A i \in CallIndices :
           calls[i].fn = "generate_keypair" =>
              LET name == Unwrap(command).name
                  stem == IF IsSome(name) THEN Unwrap(name) ELSE "user"
              IN  calls[i].args = <<InPublicDir(stem \o ".pub"), InPrivateDir(stem \o ".key")>>

-----------------------------------------------------------------------------
(* C8 *)

\* what each example of the usage text is documented to do, in its order
\* (the fifth: an Encrypt for bob with the dog dialect)
ExampleParsesAsDocumented(i) ==
    /\ IsSome(command)
    /\ CASE i = 1 -> Unwrap(command) = CmdGenerateKey(None)
         [] i = 2 -> Unwrap(command) = CmdGenerateKey(Some("alice"))
         [] i = 3 -> Unwrap(command) = CmdImportKey("bob.pub", FALSE)
         [] i = 4 -> Unwrap(command) = CmdEncrypt("bob", "message.txt", None, None)
         [] i = 5 -> /\ Unwrap(command).kind = "Encrypt"
                     /\ Unwrap(command).recipient_key = "bob"
                     /\ Unwrap(command).dialect = Some("dog")
         [] i = 6 -> Unwrap(command) = CmdDecrypt("alice", "message.purr", None)
         [] i = 7 -> Unwrap(command) = CmdSetDialect("dog")
         [] i = 8 -> Unwrap(command) = CmdEncrypt("bob", "msg.txt", None, None) /\ verbose

\* C8: every example invocation of the usage text parses to the command it
\* is documented to perform.
C8_UsageExamplesParse ==
    \A i \in 1..Len(UsageExamples) :
       (args = UsageExamples[i] /\ CalledFn("parse_args")) => ExampleParsesAsDocumented(i)

-----------------------------------------------------------------------------
(* C9 *)

EndsWithPurr(f) == Len(f) >= 5 /\ SubSeq(f, Len(f) - 4, Len(f)) = ".purr"

\* C9: without -o, encrypt of F plans the output F.purr, and decrypt of G
\* plans G without its last ".purr" when G ends in ".purr" and G.decrypted
\* otherwise; the default decrypt output of the default encrypt output of F
\* is F; a default output is never the input path.
C9_DefaultOutputNames ==
    /\ (Parsed("Encrypt") /\ IsSome(plan) /\ ~IsSome(Unwrap(command).output_file)) =>
          LET f == Unwrap(command).input_file
              out == Unwrap(plan).output
          IN  /\ out = f \o ".purr"
              /\ out # f
              /\ DecryptOutput(out, None) = f
              /\ \A i \in CallIndices :
                    calls[i].fn = "encrypt_file" => calls[i].args[2] = f \o ".purr"
    /\ (Parsed("Decrypt") /\ IsSome(plan) /\ ~IsSome(Unwrap(command).output_file)) =>
          LET g == Unwrap(command).input_file
              out == Unwrap(plan).output
          IN  /\ EndsWithPurr(g) => out \o ".purr" = g
              /\ ~EndsWithPurr(g) => out = g \o ".decrypted"
              /\ out # g
              /\ \A i \in CallIndices :
                    calls[i].fn = "decrypt_file" => calls[i].args[2] = out

\* decrypt of a.purr.purr without -o wrote a.purr
C9_Witness ==
    /\ Done
    /\ Parsed("Decrypt")
    /\ Unwrap(command).input_file = "a.purr.purr"
    /\ ~IsSome(Unwrap(command).output_file)
    /\ Succeeded("decrypt_file")
    /\ written = {"a.purr"}

-----------------------------------------------------------------------------
(* C10 *)

OperationCalls == {i \in CallIndices : calls[i].fn \in Operations}

\* C10: the calls of a run start with Keystore::new, ConfigManager::new,
\* verify_permissions and parse_args, in this order, whatever the command
\* line; operations are called only after them, at most one, at most once,
\* and a failed operation ends the run.
C10_OneCommandFixedOrder ==
    /\ Len(calls) >= 1 => calls[1].fn = "Keystore::new"
    /\ Len(calls) >= 2 => calls[2].fn = "ConfigManager::new"
    /\ Len(calls) >= 3 => calls[3].fn = "verify_permissions"
    /\ Len(calls) >= 4 => calls[4].fn = "parse_args"
    /\ \A i \in CallIndices :
          i > 4 => calls[i].fn \notin {"Keystore::new", "ConfigManager::new",
                                        "verify_permissions", "parse_args"}
    /\ \A i \in OperationCalls : i > 4
    /\ Cardinality(OperationCalls) <= 1
    /\ \A i \in OperationCalls : i = Len(calls) /\ Done
    /\ (Done /\ usageShown) => Len(calls) = 4

\* a malformed command line: the three preparations ran before the parse
\* error ended the run, and no operation was called
C10_Witness ==
    /\ Done
    /\ Len(calls) = 4
    /\ calls[3].fn = "verify_permissions"
    /\ calls[4].fn = "parse_args"
    /\ calls[4].res = "err"
    /\ exitCode = 1

====
